---------------------------- MODULE Spec2Model ----------------------------
(***************************************************************************)
(* dduckdns: a client for the Duck DNS dynamic DNS service.                *)
(*                                                                         *)
(* The model follows src/dduckdns.py.  main() is a sequential program; it  *)
(* is cut into steps at its blocking calls (reading the config file, the   *)
(* token command, urlopen of the IPv6 lookup, urlopen of the update), and  *)
(* the outcome of each call is an input chosen with \E.                    *)
(*                                                                         *)
(* A Python str is a sequence of one-character strings, so that strip(),   *)
(* the regular expression, urlencode() and repr() are computed character   *)
(* by character.  The characters the model draws are letters, digits,      *)
(* ".", ":", " " and the newline; no quote or backslash occurs.            *)
(***************************************************************************)
EXTENDS Integers, Sequences, FiniteSets, TLC

\* ------------------------------------------------------------ bounds
\* The largest number of [domains.<name>] tables in the config document.
MaxDomains == 2
\* The longest response body of the validator specification.
MaxBodyLen == 4

\* --------------------------------------------------- program constants
VERBOSITY_LOGGING_DEBUG == 1
VERBOSITY_DUCKDNS_VERBOSE == 2

DUCKDNS_URL ==
    <<"h", "t", "t", "p", "s", ":", "/", "/", "w", "w", "w", ".", "d", "u",
      "c", "k", "d", "n", "s", ".", "o", "r", "g", "/", "u", "p", "d", "a",
      "t", "e">>

\* ------------------------------------------------------------ strings
NL == "\n"
AUTO == <<"a", "u", "t", "o">>
REDACTED == <<"r", "e", "d", "a", "c", "t", "e", "d">>
TRUE_STR == <<"t", "r", "u", "e">>
K_domains == <<"d", "o", "m", "a", "i", "n", "s">>
K_ip == <<"i", "p">>
K_ipv6 == <<"i", "p", "v", "6">>
K_token == <<"t", "o", "k", "e", "n">>
K_clear == <<"c", "l", "e", "a", "r">>
K_verbose == <<"v", "e", "r", "b", "o", "s", "e">>
UnexpectedPrefix ==
    <<"U", "n", "e", "x", "p", "e", "c", "t", "e", "d", " ", "r", "e", "s",
      "p", "o", "n", "s", "e", ":", " ">>

\* str.strip(): the characters Python strips among those the model draws.
IsSpace(c) == c \in {" ", NL}

RECURSIVE LStrip(_)
LStrip(s) ==
    IF s # <<>> /\ IsSpace(Head(s)) THEN LStrip(Tail(s)) ELSE s

RECURSIVE RStrip(_)
RStrip(s) ==
    IF s # <<>> /\ IsSpace(s[Len(s)])
    THEN RStrip(SubSeq(s, 1, Len(s) - 1))
    ELSE s

Strip(s) == RStrip(LStrip(s))

\* A variant that matches r"^OK" alone.
MatchOKPrefixOnly(text) ==
    /\ Len(text) >= 2
    /\ text[1] = "O"
    /\ text[2] = "K"

\* re.match(r"^OK(?:\n|$)", text): "OK", then a newline or the end of the
\* text ("$" also matches before a last newline, which is the first case).
MatchOK(text) ==
    /\ Len(text) >= 2
    /\ text[1] = "O"
    /\ text[2] = "K"
    /\ IF Len(text) = 2 THEN TRUE ELSE text[3] = NL

\* repr() of a str without quotes or backslashes: single quotes around it,
\* a newline written as backslash, n.
ReprChar(c) == IF c = NL THEN <<"\\", "n">> ELSE <<c>>

RECURSIVE ReprBody(_)
ReprBody(s) ==
    IF s = <<>> THEN <<>> ELSE ReprChar(Head(s)) \o ReprBody(Tail(s))

Repr(s) == <<"'">> \o ReprBody(s) \o <<"'">>

\* f"Unexpected response: {text!r}"
UnexpectedMsg(text) == UnexpectedPrefix \o Repr(text)

\* urllib.parse.quote_plus on one character: letters, digits and "_.-~"
\* stay, a space becomes "+", the rest is percent-encoded.
QuoteChar(c) ==
    CASE c = " " -> <<"+">>
      [] c = NL -> <<"%", "0", "A">>
      [] c = ":" -> <<"%", "3", "A">>
      [] c = "'" -> <<"%", "2", "7">>
      [] c = "\\" -> <<"%", "5", "C">>
      [] OTHER -> <<c>>

RECURSIVE QuotePlus(_)
QuotePlus(s) ==
    IF s = <<>> THEN <<>> ELSE QuoteChar(Head(s)) \o QuotePlus(Tail(s))

\* urlencode of a dict, a sequence of <<key, value>> in insertion order.
RECURSIVE UrlEncode(_)
UrlEncode(q) ==
    IF q = <<>> THEN <<>>
    ELSE QuotePlus(q[1][1]) \o <<"=">> \o QuotePlus(q[1][2])
         \o (IF Len(q) > 1 THEN <<"&">> ELSE <<>>)
         \o UrlEncode(Tail(q))

\* f"{DUCKDNS_URL}?{urlencode(params)}"
UrlOf(q) == DUCKDNS_URL \o <<"?">> \o UrlEncode(q)

\* d[k] = v on a dict: the value is replaced in place, or the key appended.
DictKeys(q) == {q[n][1] : n \in DOMAIN q}

DictSet(q, k, v) ==
    IF k \in DictKeys(q)
    THEN [n \in DOMAIN q |-> IF q[n][1] = k THEN <<k, v>> ELSE q[n]]
    ELSE Append(q, <<k, v>>)

DictGet(q, k) == q[CHOOSE n \in DOMAIN q : q[n][1] = k][2]

\* ------------------------------------------------------- the inputs
\* The names of the [domains.<name>] tables: d1, d2, ... (the keys of a
\* TOML table are distinct).
Digits == <<"1", "2", "3", "4", "5", "6", "7", "8", "9">>
NameOf(n) == <<"d", Digits[n]>>

IP4 == <<"1", ".", "2">>
IP6 == <<":", ":", "1">>

\* A [domains.<name>] table: a function from the keys it holds to their
\* values.  An option is <<>> (the key is absent) or <<value>>.
ClearOpts == {<<>>, <<TRUE>>}
Ipv6Opts == {<<>>, <<AUTO>>, <<IP6>>}
BogusOpts == {<<>>, <<IP4>>}

TableOf(c, p, v, b) ==
    [k \in (IF c # <<>> THEN {"clear"} ELSE {})
           \cup (IF p # <<>> THEN {"ip"} ELSE {})
           \cup (IF v # <<>> THEN {"ipv6"} ELSE {})
           \cup (IF b # <<>> THEN {"bogus"} ELSE {})
        |-> CASE k = "clear" -> c[1]
              [] k = "ip" -> p[1]
              [] k = "ipv6" -> v[1]
              [] k = "bogus" -> b[1]]

\* The tables of a batch: clear and ipv6 vary, a key may be unknown.
Tables ==
    {TableOf(c, <<>>, v, b) :
        c \in ClearOpts, v \in Ipv6Opts, b \in BogusOpts}

\* The tables of the query specification: every field absent, at its
\* default or set.
QueryTables ==
    {TableOf(c, p, v, <<>>) :
        c \in {<<>>, <<FALSE>>, <<TRUE>>},
        p \in {<<>>, <<<<>>>>, <<IP4>>},
        v \in {<<>>, <<<<>>>>, <<AUTO>>, <<IP6>>}}

\* args.verbosity: no -v, -v, -vv and one more.
Verbosities == 0 .. VERBOSITY_DUCKDNS_VERBOSE + 1

TableSeqs == UNION {[1 .. n -> Tables] : n \in 0 .. MaxDomains}

\* The config file: missing, unreadable, not TOML, or a TOML document with
\* its top-level keys and its [domains.<name>] tables in file order.
TopKeys == {"token_command", "domains", "extra"}

Docs ==
    {[kind |-> k, top |-> {}, domains |-> <<>>] :
        k \in {"missing", "unreadable", "garbled"}}
    \cup {[kind |-> "toml", top |-> t, domains |-> <<>>] :
            t \in SUBSET (TopKeys \ {"domains"})}
    \cup {[kind |-> "toml", top |-> t \cup {"domains"}, domains |-> ts] :
            t \in SUBSET (TopKeys \ {"domains"}), ts \in TableSeqs}

\* What the token command prints, or how it fails.
TokenOutcomes ==
    {[kind |-> "ok", out |-> <<"k", "9", NL>>],
     [kind |-> "ok", out |-> <<" ", "z", "7">>],
     [kind |-> "CalledProcessError", out |-> <<>>],
     [kind |-> "FileNotFoundError", out |-> <<>>]}

\* What urlopen(...) and response.read().decode() do: a body, a URLError
\* (HTTPError is one), a ValueError (UnicodeDecodeError is one), or an
\* exception that is neither (http.client.RemoteDisconnected and
\* IncompleteRead are raised by getresponse() and read() as they are).
URLErrorText ==
    <<"<", "u", "r", "l", "o", "p", "e", "n", " ", "e", "r", "r", "o", "r",
      ">">>

IPv6Bodies == {<<":", ":", "2", NL>>, <<":", ":", "3">>}
UpdateBodies == {<<"O", "K", NL>>, <<"K", "O">>}

Failures ==
    {[kind |-> "URLError", body |-> URLErrorText],
     [kind |-> "HTTPException", body |-> <<>>]}

Outcomes(bodies) == {[kind |-> "ok", body |-> b] : b \in bodies} \cup Failures

\* All strings of at most n characters of alphabet A.
AllStrings(A, n) == UNION {[1 .. m -> A] : m \in 0 .. n}

ValidatorAlphabet == {"O", "K", NL, " ", "x"}
ValidatorBodies == AllStrings(ValidatorAlphabet, MaxBodyLen)

\* ------------------------------------------------------------ state
VARIABLES
    doc,          \* the config file the run reads
    verbosity,    \* args.verbosity: the number of -v flags
    pc,           \* where main() is
    config,       \* Config.domains: <<[name, settings], ...>> in dict order
    token,        \* the token main() holds
    idx,          \* the position of the for loop in config.domains
    exit_status,  \* main()'s exit_status
    exit_code,    \* the exit status of the process, -1 while it runs
    log,          \* the log records the handler got, in order
    net,          \* the HTTP requests issued, in order
    tokenRuns,    \* how often the token command was executed
    hist          \* per domain: what its update did

vars ==
    <<doc, verbosity, pc, config, token, idx, exit_status, exit_code, log,
      net, tokenRuns, hist>>

\* ---------------------------------------------------------- logging
\* configure_logging: the root logger is at DEBUG from the first -v on, at
\* INFO otherwise.
LogEnabled(level, v) ==
    level # "DEBUG" \/ v >= VERBOSITY_LOGGING_DEBUG

\* A LogRecord: its level, its format string, its arguments, and the text
\* of the exception logged with it (logger.exception), <<>> without one.
Rec(level, msg, args, exc) ==
    [level |-> level, msg |-> msg, args |-> args, exc |-> exc]

Emit(lg, rec) ==
    IF LogEnabled(rec.level, verbosity) THEN Append(lg, rec) ELSE lg

\* ----------------------------------------------------- config loading
FieldNames == {"clear", "ip", "ipv6"}

\* DomainSettings(**settings) raises TypeError on a keyword that is no
\* field of the dataclass.
SettingsError(t) == (DOMAIN t) \ FieldNames # {}

\* DomainSettings(**settings): the fields given, the defaults for the rest.
DomainSettings(t) ==
    [clear |-> IF "clear" \in DOMAIN t THEN t.clear ELSE FALSE,
     ip |-> IF "ip" \in DOMAIN t THEN t.ip ELSE <<>>,
     ipv6 |-> IF "ipv6" \in DOMAIN t THEN t.ipv6 ELSE <<>>]

\* A variant that reads the key with config_data.get.
HasTokenCommandAlways(d) == TRUE

\* config_data["token_command"] raises KeyError without the key.
HasTokenCommand(d) == "token_command" \in d.top

\* The try block of main(): the exception it ends with, or "ok".
ConfigResult(d) ==
    CASE d.kind = "missing" -> "FileNotFoundError"
      [] d.kind = "unreadable" -> "OSError"
      [] d.kind = "garbled" -> "TOMLDecodeError"
      [] \E n \in DOMAIN d.domains : SettingsError(d.domains[n]) -> "TypeError"
      [] ~HasTokenCommand(d) -> "KeyError"
      [] OTHER -> "ok"

\* config.domains of a document that loads.
DomainsOf(d) ==
    [n \in DOMAIN d.domains |->
        [name |-> NameOf(n), settings |-> DomainSettings(d.domains[n])]]

NoHist ==
    [status |-> "pending", lookups |-> 0, ret |-> <<>>, gets |-> 0,
     query |-> <<>>, resp |-> <<>>, err |-> <<>>]

\* --------------------------------------------------- the update request
\* A variant that looks the address up for every ipv6 setting given.
IsAutoNonEmpty(settings) == settings.ipv6 # <<>>

\* settings.ipv6 == "auto"
IsAuto(settings) == settings.ipv6 = AUTO

\* A variant that compares with the other threshold.
ProviderVerboseFromDebug(v) == v >= VERBOSITY_LOGGING_DEBUG

\* verbose=args.verbosity >= VERBOSITY_DUCKDNS_VERBOSE
ProviderVerbose(v) == v >= VERBOSITY_DUCKDNS_VERBOSE

\* query_params of duckdns(), given the value of its "ipv6" entry.
BuildQuery(tok, domain, settings, verbose, ipv6) ==
    LET base == << <<K_domains, domain>>, <<K_ip, settings.ip>>,
                   <<K_ipv6, ipv6>>, <<K_token, tok>> >>
        cleared == IF settings.clear
                   THEN DictSet(base, K_clear, TRUE_STR)
                   ELSE base
    IN  IF verbose THEN DictSet(cleared, K_verbose, TRUE_STR) ELSE cleared

\* A variant that logs the query as it is sent.
RedactNothing(q) == q

\* debug_query_params: a copy with the token replaced.
Redact(q) == DictSet(q, K_token, REDACTED)

\* A variant that sets exit_status from the last domain alone.
StatusAfterReset(es, failed) == IF failed THEN 1 ELSE 0

\* exit_status after a domain: 1 once an update failed, else as it was.
StatusAfter(es, failed) == IF failed THEN 1 ELSE es

\* ------------------------------------------------------------ actions
\* The state main() starts in, the config file being one of docs.
Start(docs) ==
    /\ doc \in docs
    /\ verbosity \in Verbosities
    /\ pc = "load"
    /\ config = <<>>
    /\ token = <<>>
    /\ idx = 0
    /\ exit_status = 0
    /\ exit_code = -1
    /\ log = <<>>
    /\ net = <<>>
    /\ tokenRuns = 0
    /\ hist = <<>>

Init == Start(Docs)

\* An exception no handler catches: the interpreter prints the traceback
\* (no log record) and the process ends with status 1.
Uncaught ==
    /\ pc' = "done"
    /\ exit_code' = 1

\* main(), the try block that loads the config and its handlers.
LoadConfig ==
    /\ pc = "load"
    /\ LET r == ConfigResult(doc)
       IN  \/ /\ r = "ok"
              /\ config' = DomainsOf(doc)
              /\ hist' = [n \in DOMAIN doc.domains |-> NoHist]
              /\ pc' = "token"
              /\ UNCHANGED <<exit_code, log>>
           \/ /\ r = "FileNotFoundError"
              /\ log' = Emit(log, Rec("CRITICAL", "Config file not found: %s",
                                      <<>>, <<>>))
              /\ pc' = "done"
              /\ exit_code' = 1
              /\ UNCHANGED <<config, hist>>
           \/ /\ r \in {"TOMLDecodeError", "KeyError", "TypeError"}
              /\ log' = Emit(log, Rec("CRITICAL",
                                      "Failed to parse config file %s: %s",
                                      <<>>, <<>>))
              /\ pc' = "done"
              /\ exit_code' = 1
              /\ UNCHANGED <<config, hist>>
           \/ /\ r = "OSError"
              /\ Uncaught
              /\ UNCHANGED <<config, hist, log>>
    /\ UNCHANGED <<doc, verbosity, token, idx, exit_status, net, tokenRuns>>

\* token = sp.check_output(config.token_command, text=True).strip(), then
\* exit_status = 0 and the loop's start.
ResolveToken ==
    /\ pc = "token"
    /\ tokenRuns' = tokenRuns + 1
    /\ \E o \in TokenOutcomes :
          \/ /\ o.kind = "ok"
             /\ token' = Strip(o.out)
             /\ exit_status' = 0
             /\ idx' = 1
             /\ pc' = "loop"
             /\ UNCHANGED exit_code
          \/ /\ o.kind # "ok"
             /\ Uncaught
             /\ UNCHANGED <<token, exit_status, idx>>
    /\ UNCHANGED <<doc, verbosity, config, log, net, hist>>

\* duckdns() from the query on, up to the urlopen of the update: the query
\* is built with the given "ipv6" entry and logged with the token replaced.
PrepareRequest(ipv6, lg, h) ==
    LET d == config[idx]
        q == BuildQuery(token, d.name, d.settings,
                        ProviderVerbose(verbosity), ipv6)
    IN  /\ hist' = [h EXCEPT ![idx].query = q]
        /\ log' = Emit(lg, Rec("DEBUG", "Making Duck DNS request: %s",
                               <<UrlOf(Redact(q))>>, <<>>))
        /\ pc' = "request"

\* The except clause of the loop: exit_status = 1, logger.exception.
Caught(text, lg, h) ==
    /\ exit_status' = StatusAfter(exit_status, TRUE)
    /\ log' = Emit(lg, Rec("ERROR", "Failed to update domain %r",
                           <<config[idx].name>>, text))
    /\ hist' = [h EXCEPT ![idx].status = "failed", ![idx].err = text]
    /\ idx' = idx + 1
    /\ pc' = "loop"
    /\ UNCHANGED exit_code

\* An exception of duckdns() that is neither URLError nor ValueError.
Crashed(h) ==
    /\ Uncaught
    /\ hist' = [h EXCEPT ![idx].status = "crashed"]
    /\ UNCHANGED <<exit_status, idx, log>>

\* The loop takes the next domain and calls duckdns(): its query literal
\* calls get_ipv6() when the domain's ipv6 is "auto".
BeginDomain ==
    /\ pc = "loop"
    /\ idx <= Len(config)
    /\ \/ /\ IsAuto(config[idx].settings)
          /\ pc' = "lookup"
          /\ UNCHANGED <<hist, log>>
       \/ /\ ~IsAuto(config[idx].settings)
          /\ PrepareRequest(config[idx].settings.ipv6, log, hist)
    /\ UNCHANGED <<doc, verbosity, config, token, idx, exit_status,
                   exit_code, net, tokenRuns>>

\* get_ipv6(): urlopen(IPV6_URL), the body stripped and logged.
GetIpv6 ==
    /\ pc = "lookup"
    /\ net' = Append(net, [kind |-> "ipv6", dom |-> idx])
    /\ \E o \in Outcomes(IPv6Bodies) :
          LET h == [hist EXCEPT ![idx].lookups = @ + 1]
          IN  \/ /\ o.kind = "ok"
                 /\ LET ipv6 == Strip(o.body)
                    IN  PrepareRequest(
                            ipv6,
                            Emit(log, Rec("DEBUG", "Got IPv6 response: %s",
                                          <<ipv6>>, <<>>)),
                            [h EXCEPT ![idx].ret = <<ipv6>>])
                 /\ UNCHANGED <<exit_status, exit_code, idx>>
              \/ /\ o.kind = "URLError"
                 /\ Caught(o.body, log, h)
              \/ /\ o.kind = "HTTPException"
                 /\ Crashed(h)
    /\ UNCHANGED <<doc, verbosity, config, token, tokenRuns>>

\* duckdns() from urlopen(url) on: the body stripped, logged and matched.
UpdateWith(bodies) ==
    /\ pc = "request"
    /\ net' = Append(net, [kind |-> "update", dom |-> idx])
    /\ \E o \in Outcomes(bodies) :
          LET h == [hist EXCEPT ![idx].gets = @ + 1]
          IN  \/ /\ o.kind = "ok"
                 /\ LET text == Strip(o.body)
                        lg == Emit(log, Rec("DEBUG",
                                            "Got Duck DNS response: %s",
                                            <<text>>, <<>>))
                        hr == [h EXCEPT ![idx].resp = <<o.body>>]
                    IN  \/ /\ MatchOK(text)
                           /\ exit_status' = StatusAfter(exit_status, FALSE)
                           /\ hist' = [hr EXCEPT ![idx].status = "ok"]
                           /\ log' = lg
                           /\ idx' = idx + 1
                           /\ pc' = "loop"
                           /\ UNCHANGED exit_code
                        \/ /\ ~MatchOK(text)
                           /\ Caught(UnexpectedMsg(text), lg, hr)
              \/ /\ o.kind = "URLError"
                 /\ Caught(o.body, log, h)
              \/ /\ o.kind = "HTTPException"
                 /\ Crashed(h)
    /\ UNCHANGED <<doc, verbosity, config, token, tokenRuns>>

Update == UpdateWith(UpdateBodies)

\* sys.exit(exit_status) after the loop.
Exit ==
    /\ pc = "loop"
    /\ idx > Len(config)
    /\ pc' = "done"
    /\ exit_code' = exit_status
    /\ UNCHANGED <<doc, verbosity, config, token, idx, exit_status, log,
                   net, tokenRuns, hist>>

Next ==
    \/ LoadConfig
    \/ ResolveToken
    \/ BeginDomain
    \/ GetIpv6
    \/ Update
    \/ Exit

Spec == Init /\ [][Next]_vars

\* The validator on every short body: one domain with default settings,
\* and the update's response drawn from all strings of ValidatorAlphabet.
InitValidate ==
    Start({[kind |-> "toml", top |-> {"token_command", "domains"},
            domains |-> <<TableOf(<<>>, <<>>, <<>>, <<>>)>>]})

UpdateAny == UpdateWith(ValidatorBodies)

NextValidate ==
    \/ LoadConfig
    \/ ResolveToken
    \/ BeginDomain
    \/ UpdateAny
    \/ Exit

SpecValidate == InitValidate /\ [][NextValidate]_vars

\* The query of one domain, over every settings table.
InitQuery ==
    Start({[kind |-> "toml", top |-> {"token_command", "domains"},
            domains |-> <<t>>] : t \in QueryTables})

SpecQuery == InitQuery /\ [][Next]_vars

\* ------------------------------------------------------------ claims
\* t occurs in s as a run of consecutive characters.
Contains(s, t) ==
    \E k \in 0 .. (Len(s) - Len(t)) : SubSeq(s, k + 1, k + Len(t)) = t

\* The token command ran and gave a token; it ran and failed.
TokenResolved == token # <<>>
TokenFailed == pc = "done" /\ tokenRuns > 0 /\ token = <<>>

\* The loop went through every domain and main() called sys.exit.
LoopFinished == pc = "done" /\ TokenResolved /\ idx = Len(config) + 1

\* The update of domain n failed: its exception was caught, or was not.
UpdateFailed(n) == hist[n].status \in {"failed", "crashed"}

\* The error-level records that name domain n.
ErrorRecords(n) ==
    {k \in DOMAIN log :
        log[k].level = "ERROR" /\ log[k].args = <<config[n].name>>}

\* C1: when the config loads and the token resolves, the process exits 1
\* if some domain's update failed and 0 if none did (no domain included),
\* and inside the loop exit_status is 1 exactly when an earlier domain
\* failed: a later success does not reset it.
C1_ExitStatus ==
    /\ LoopFinished =>
          exit_code = (IF \E n \in DOMAIN hist : UpdateFailed(n) THEN 1 ELSE 0)
    /\ (pc = "done" /\ TokenResolved) =>
          (exit_code # 0 <=> \E n \in DOMAIN hist : UpdateFailed(n))
    /\ pc \in {"loop", "lookup", "request"} =>
          exit_status =
            (IF \E n \in 1 .. (idx - 1) : UpdateFailed(n) THEN 1 ELSE 0)

C1_Witness ==
    /\ LoopFinished
    /\ Len(hist) >= 2
    /\ hist[1].status = "failed"
    /\ hist[2].status = "ok"
    /\ exit_code = 1

\* C2: once the token is resolved, every configured domain is attempted
\* exactly once, whatever happens to the other domains.
C2_EveryDomainAttempted ==
    (pc = "done" /\ TokenResolved) =>
        \A n \in DOMAIN hist :
            /\ hist[n].status # "pending"
            /\ hist[n].gets <= 1

\* The text is OK, or starts with OK and a newline.
IsOKText(text) ==
    \/ text = <<"O", "K">>
    \/ (Len(text) >= 3 /\ SubSeq(text, 1, 3) = <<"O", "K", NL>>)

RECURSIVE Unescape(_)
Unescape(s) ==
    IF s = <<>> THEN <<>>
    ELSE IF Len(s) >= 2 /\ s[1] = "\\" /\ s[2] = "n"
         THEN <<NL>> \o Unescape(SubSeq(s, 3, Len(s)))
         ELSE <<s[1]>> \o Unescape(Tail(s))

RequestMsg == "Making Duck DNS request: %s"

\* C4: no log record holds the token, in its arguments or in its exception
\* text, under any verbosity; the logged request holds token=redacted.
C4_TokenNeverLogged ==
    \A k \in DOMAIN log :
        /\ TokenResolved =>
              /\ \A a \in DOMAIN log[k].args : ~Contains(log[k].args[a], token)
              /\ ~Contains(log[k].exc, token)
        /\ log[k].msg = RequestMsg =>
              Contains(log[k].args[1], K_token \o <<"=">> \o REDACTED)

\* A run that logged a request and a failure, and sent the token.
C4_Witness ==
    /\ TokenResolved
    /\ pc = "done"
    /\ \E k \in DOMAIN log : log[k].msg = RequestMsg
    /\ \E k \in DOMAIN log : log[k].level = "ERROR" /\ log[k].exc # <<>>
    /\ \E n \in DOMAIN hist :
          /\ hist[n].gets = 1
          /\ Contains(UrlOf(hist[n].query), K_token \o <<"=">> \o token)

\* The config file is missing, is not TOML or lacks token_command.
ConfigFails ==
    \/ doc.kind \in {"missing", "garbled"}
    \/ (doc.kind = "toml" /\ "token_command" \notin doc.top)

\* C5: when the config file is missing, is not TOML or lacks token_command,
\* the token command is not executed; then, and when the token command
\* fails, no domain is attempted, no HTTP request is issued and the exit
\* status is not zero.
C5_FailFast ==
    /\ ConfigFails => (tokenRuns = 0 /\ pc \in {"load", "done"})
    /\ (ConfigFails \/ TokenFailed) =>
          /\ net = <<>>
          /\ \A n \in DOMAIN hist : hist[n] = NoHist
          /\ \A k \in DOMAIN log : log[k].level = "CRITICAL"
          /\ pc = "done" => exit_code = 1

C5_Witness ==
    /\ pc = "done"
    /\ doc.kind = "toml"
    /\ "token_command" \notin doc.top
    /\ Len(doc.domains) >= 2
    /\ exit_code = 1
    /\ Len(log) = 1

\* The document has a top-level key, or a key in a domain's table, that
\* the schema does not name.
UnknownTopKey ==
    doc.kind = "toml" /\ doc.top \ {"token_command", "domains"} # {}

UnknownDomainKey ==
    /\ doc.kind = "toml"
    /\ \E n \in DOMAIN doc.domains : (DOMAIN doc.domains[n]) \ FieldNames # {}

\* C6: a config document with an unknown top-level key, or an unknown key
\* in a domain's table, ends the run with a non-zero status before the
\* token command is executed and before any HTTP request.
C6_StrictSchema ==
    (UnknownTopKey \/ UnknownDomainKey) =>
        /\ tokenRuns = 0
        /\ net = <<>>
        /\ pc = "done" => exit_code # 0

\* The number of requests of a kind issued for domain n.
Issued(kind, n) ==
    Cardinality({k \in DOMAIN net : net[k] = [kind |-> kind, dom |-> n]})

\* Domain n's update is past its lookup step.
PastLookup(n) ==
    hist[n].status # "pending" \/ (idx = n /\ pc = "request")

\* C7: a domain's update issues one IPv6 lookup of its own when its ipv6
\* setting is "auto" and none otherwise; the query's ipv6 value is what
\* that lookup returned, or settings.ipv6 as it is (empty included).
C7_Ipv6Resolution ==
    \A n \in DOMAIN hist :
        LET s == config[n].settings
            auto == s.ipv6 = AUTO
        IN  /\ hist[n].lookups = (IF auto /\ PastLookup(n) THEN 1 ELSE 0)
            /\ Issued("ipv6", n) = hist[n].lookups
            /\ hist[n].query # <<>> =>
                  /\ auto => hist[n].ret # <<>>
                  /\ DictGet(hist[n].query, K_ipv6) =
                        (IF auto THEN hist[n].ret[1] ELSE s.ipv6)

C7_Witness ==
    /\ pc = "done"
    /\ Len(hist) >= 2
    /\ hist[1].query # <<>>
    /\ hist[2].query # <<>>
    /\ hist[1].ret # <<>>
    /\ hist[2].ret # <<>>
    /\ hist[1].ret # hist[2].ret
    /\ DictGet(hist[1].query, K_ipv6) # DictGet(hist[2].query, K_ipv6)

\* C8: the query holds the keys domains, token, ip and ipv6, clear exactly
\* when settings.clear is true, verbose exactly from the second -v on, and
\* no other key.
C8_QueryKeys ==
    \A n \in DOMAIN hist :
        LET q == hist[n].query
        IN  q # <<>> =>
              /\ DictKeys(q) =
                    {K_domains, K_token, K_ip, K_ipv6}
                    \cup (IF config[n].settings.clear = TRUE
                          THEN {K_clear} ELSE {})
                    \cup (IF verbosity >= 2 THEN {K_verbose} ELSE {})
              /\ Cardinality(DictKeys(q)) = Len(q)
              /\ DictGet(q, K_ip) = config[n].settings.ip

C8_Witness ==
    /\ Len(hist) = 1
    /\ hist[1].query # <<>>
    /\ verbosity = 1
    /\ doc.domains[1] = TableOf(<<FALSE>>, <<>>, <<>>, <<>>)
    /\ DictGet(hist[1].query, K_ip) = <<>>
    /\ DictGet(hist[1].query, K_ipv6) = <<>>
    /\ Len(hist[1].query) = 4

\* C9: when the process has exited, every domain whose update failed has an
\* error-level log record naming it, and a domain whose update succeeded
\* has none.
C9_FailuresLogged ==
    pc = "done" =>
        \A n \in DOMAIN hist :
            /\ UpdateFailed(n) => ErrorRecords(n) # {}
            /\ hist[n].status = "ok" => ErrorRecords(n) = {}

\* Domain n's IPv6 lookup was made and failed.
LookupFailed(n) ==
    hist[n].lookups = 1 /\ hist[n].ret = <<>> /\ hist[n].status # "pending"

\* C10: a domain's lookup comes before its update GET, it gets at most one
\* of each, and when its lookup fails it gets no GET, is recorded as a
\* failure and the batch goes on to the next domain.
C10_OrderedNoRetry ==
    \A n \in DOMAIN hist :
        /\ hist[n].lookups <= 1
        /\ Issued("update", n) <= 1
        /\ \A j, k \in DOMAIN net :
              (net[j] = [kind |-> "ipv6", dom |-> n]
               /\ net[k] = [kind |-> "update", dom |-> n]) => j < k
        /\ LookupFailed(n) =>
              /\ Issued("update", n) = 0
              /\ hist[n].status = "failed"
              /\ (pc = "done" /\ n < Len(hist)) =>
                    hist[n + 1].status # "pending"

=============================================================================
